---------------------------- MODULE Spec2Model ----------------------------
(***************************************************************************)
(* A model of the OpenGrep VS Code extension: the scanner invocation       *)
(* (scanner.ts), the diagnostics provider (diagnostics.ts), the findings   *)
(* tree view (views/findingsView.ts), the suppression handler              *)
(* (suppression.ts) and the command handlers of extension.ts.              *)
(*                                                                         *)
(* Async handlers are split at their awaits: the code between two awaits   *)
(* is one action.  The host (VS Code) and the scanner process are the      *)
(* environment: their outcomes are drawn with \E from small sets.          *)
(***************************************************************************)
EXTENDS Integers, Sequences, FiniteSets, TLC

VARIABLES
    findings,             \* FindingsProvider.findings: Map<filePath, OpenGrepFinding[]>
    documentDiagnostics,  \* OpenGrepDiagnosticProvider.documentDiagnostics / diagnosticCollection
    minSeverity,          \* the opengrep.severity setting
    computedAt,           \* history: per document, the setting its diagnostics were computed under
    scanTasks,            \* scanDocument calls awaiting scanner.scanFile, in issue order
    overtaken,            \* history: per call of scanTasks, whether a later call of its file has finished
    wsPhase,              \* position of diagnostics.scanWorkspace
    wsGroups,             \* entries of findingsByFile the repopulation loop has not processed
    lastCall,             \* history: the last call on the findings store
    wsLog,                \* history: the last workspace scan's result and skipped files
    doc,                  \* the text document's buffer: a sequence of lines
    disk,                 \* the document's content on disk
    languageId,           \* the document's language
    pcS,                  \* position of the suppression handler
    pendingEdit,          \* the WorkspaceEdit handed to applyEdit
    lastSuppress,         \* history: the last suppression call, its input and outcome
    fileWideRun,          \* history: the suppressRuleInFile calls made in a row
    rescan,               \* history: what is on disk when the handler's rescan starts
    configFile,           \* the workspace's .semgrep.yml on disk
    pcG,                  \* position of suppressRuleGlobally
    localG,               \* suppressRuleGlobally's locals across its awaits
    lastGlobal,           \* history: the last suppressRuleGlobally call and its outcome
    scanOnSave,           \* the opengrep.scanOnSave setting
    saveListener,         \* whether activate registered the onDidSaveTextDocument listener
    lastSave,             \* history: the last save event and whether it started a scan
    funIn,                \* the arguments and environment of a function under study
    funOut                \* what the function returned for them

extVars == <<findings, documentDiagnostics, minSeverity, computedAt, scanTasks, overtaken,
             wsPhase, wsGroups, lastCall, wsLog>>
supVars == <<doc, disk, languageId, pcS, pendingEdit, lastSuppress, fileWideRun,
             rescan>>
globalVars == <<configFile, pcG, localG, lastGlobal>>
saveVars == <<scanOnSave, saveListener, lastSave>>
funVars == <<funIn, funOut>>
vars == <<findings, documentDiagnostics, minSeverity, computedAt, scanTasks, overtaken,
          wsPhase, wsGroups, lastCall, wsLog,
          doc, disk, languageId, pcS, pendingEdit, lastSuppress, fileWideRun,
          rescan, configFile, pcG, localG, lastGlobal,
          scanOnSave, saveListener, lastSave, funIn, funOut>>

None == [none |-> TRUE]

\* No .semgrep.yml in the workspace folder.
NoFile == [kind |-> "absent"]

\* The state of the handlers and functions a specification leaves alone.
IdleGlobal ==
    /\ configFile = NoFile
    /\ pcG = "idle"
    /\ localG = None
    /\ lastGlobal = None

IdleFunctions == funIn = None /\ funOut = None

\* The extension activated with the default of opengrep.scanOnSave, and no
\* save event.
IdleSave ==
    /\ scanOnSave = TRUE
    /\ saveListener = TRUE
    /\ lastSave = None

(***************************************************************************)
(* Bounds of the model.                                                    *)
(***************************************************************************)
\* findings in one scanner result
MaxFindings == 2
\* scanDocument calls in flight at once
MaxInFlight == 2
\* lines of the document when it is opened
MaxInitLines == 1
\* lines the document may grow to
MaxLines == 3
\* entries of the exclude list of the .semgrep.yml a call starts from
MaxExclude == 2
MaxMarkers == 2

SeqsUpTo(S, n) == UNION {[1..k -> S] : k \in 0..n}


(***************************************************************************)
(* Paths: a path is its sequence of segments.  The workspace folder is     *)
(* /w; the documents are /w/a.py and /w/b.py.                              *)
(***************************************************************************)
workspaceFolder == <<"w">>
fileA == <<"w", "a.py">>
fileB == <<"w", "b.py">>
Files == {fileA, fileB}

\* String.localeCompare on the documents' paths: a.py sorts before b.py.
PathRank(p) == IF p = fileA THEN 1 ELSE 2
localeCompare(p, q) == PathRank(p) - PathRank(q)

RECURSIVE NormalizeFrom(_, _)
\* path.normalize, segment by segment: "." is dropped, ".." removes the
\* segment before it (or stays, at the start of a relative path).
NormalizeFrom(done, rest) ==
    IF rest = <<>> THEN done
    ELSE LET s == Head(rest) IN
         IF s = "." THEN NormalizeFrom(done, Tail(rest))
         ELSE IF s = ".." /\ done # <<>> /\ done[Len(done)] # ".."
              THEN NormalizeFrom(SubSeq(done, 1, Len(done) - 1), Tail(rest))
         ELSE NormalizeFrom(Append(done, s), Tail(rest))

normalize(p) ==
    LET n == NormalizeFrom(<<>>, p) IN IF n = <<>> THEN <<".">> ELSE n

RECURSIVE CommonPrefixLen(_, _)
CommonPrefixLen(p, q) ==
    IF p = <<>> \/ q = <<>> \/ Head(p) # Head(q) THEN 0
    ELSE 1 + CommonPrefixLen(Tail(p), Tail(q))

\* path.relative(from, to) of two absolute paths.
relative(from, to) ==
    LET c == CommonPrefixLen(from, to) IN
    [i \in 1..(Len(from) - c) |-> ".."] \o SubSeq(to, c + 1, Len(to))

\* path.resolve(base, p) of an absolute base and a relative p.  An absolute
\* path keeps no ".." at its root.
resolve(base, p) ==
    LET n == NormalizeFrom(<<>>, base \o p) IN
    SelectSeq(n, LAMBDA s : s # "..")

(***************************************************************************)
(* Findings (types.ts).                                                    *)
(***************************************************************************)
Severities == {"INFO", "WARNING", "ERROR"}

Finding(id, p, sev) == [check_id |-> id, path |-> p, severity |-> sev]

\* The paths the scanner reports, relative to its working directory.
ReportedPaths == {<<"a.py">>, <<".", "a.py">>, <<"b.py">>}


(***************************************************************************)
(* A JavaScript Map: its entries in insertion order.                       *)
(***************************************************************************)
EmptyMap == <<>>

MapKeys(m) == {m[i].key : i \in 1..Len(m)}

MapHas(m, k) == k \in MapKeys(m)

MapGet(m, k) == m[CHOOSE i \in 1..Len(m) : m[i].key = k].val

\* Map.set: an existing key keeps its place, a new key goes last.
MapSet(m, k, v) ==
    IF MapHas(m, k)
    THEN [i \in 1..Len(m) |-> IF m[i].key = k THEN [key |-> k, val |-> v] ELSE m[i]]
    ELSE Append(m, [key |-> k, val |-> v])

MapDelete(m, k) == SelectSeq(m, LAMBDA e : e.key # k)

(***************************************************************************)
(* The scanner process (scanner.ts).  Its stdout is a sequence of lines:   *)
(*   text  a banner or log line, not starting with '{'                     *)
(*   json  a complete JSON document on one line, with its results          *)
(*   open  the first line, "{", of a JSON document that spans the lines    *)
(*         after it, with the document's results                           *)
(*   rest  the remaining lines of such a document                          *)
(*   bad   a line that starts with '{' and is not JSON                     *)
(***************************************************************************)
TextLine == [k |-> "text", results |-> <<>>]
JsonLine(r) == [k |-> "json", results |-> r]
OpenLine(r) == [k |-> "open", results |-> r]
RestLine == [k |-> "rest", results |-> <<>>]
BadLine == [k |-> "bad", results |-> <<>>]

\* { results: [], errors: [], version: '' }
EmptyResult == <<>>

\* JSON.parse(output) succeeds on exactly one JSON document.
IsJsonDocument(output) ==
    \/ Len(output) = 1 /\ output[1].k = "json"
    \/ Len(output) = 2 /\ output[1].k = "open" /\ output[2].k = "rest"

StartsWithBrace(line) == line.k \in {"json", "open", "bad"}

\* OpenGrepScanner.parseResults: the results of the parsed output.
parseResults(output) ==
    IF IsJsonDocument(output) THEN output[1].results
    ELSE LET braces == SelectSeq(output, StartsWithBrace) IN
         IF braces = <<>> THEN EmptyResult
         ELSE LET jsonLine == Head(braces) IN
              \* JSON.parse(jsonLine) throws unless the line alone is JSON
              IF jsonLine.k = "json" THEN jsonLine.results ELSE EmptyResult

\* What one run of the scanner can end in.
\*   noBinary  getBinaryPath rejects
\*   noFolder  no workspace folder is open
\*   noRules   the rules directory does not exist
\*   exit0     the process exits zero
\*   exitErr   execAsync rejects; the error carries the process's stdout
OutcomeKinds == {"noBinary", "noFolder", "noRules", "exit0", "exitErr"}

Outcome(kind, out) == [kind |-> kind, stdout |-> out]

\* The filter of scanFile: the finding's path against the target's.
MatchesTarget(finding, relativePath) ==
    normalize(finding.path) = normalize(relativePath)

\* OpenGrepScanner.scanFile(filePath): the findings it resolves to.
scanFile(filePath, outcome) ==
    LET relativePath == relative(workspaceFolder, filePath) IN
    CASE outcome.kind \in {"noBinary", "noFolder", "noRules"} -> <<>>
      [] outcome.kind = "exit0" ->
            SelectSeq(parseResults(outcome.stdout),
                      LAMBDA f : MatchesTarget(f, relativePath))
      [] outcome.kind = "exitErr" ->
            IF outcome.stdout # <<>> THEN parseResults(outcome.stdout) ELSE <<>>

RECURSIVE GroupByFile_Overwriting(_, _)
\* A loop that sets a file's group to the finding at hand.
GroupByFile_Overwriting(findingsByFile, results) ==
    IF results = <<>> THEN findingsByFile
    ELSE GroupByFile_Overwriting(
             MapSet(findingsByFile, resolve(workspaceFolder, Head(results).path),
                    <<Head(results)>>),
             Tail(results))

RECURSIVE GroupByFile(_, _)
\* The loop of scanWorkspace over results.results.
GroupByFile(findingsByFile, results) ==
    IF results = <<>> THEN findingsByFile
    ELSE LET finding == Head(results)
             filePath == resolve(workspaceFolder, finding.path)
             old == IF MapHas(findingsByFile, filePath)
                    THEN MapGet(findingsByFile, filePath) ELSE <<>>
         IN GroupByFile(MapSet(findingsByFile, filePath, Append(old, finding)),
                        Tail(results))

\* OpenGrepScanner.scanWorkspace(): the Map it resolves to, or "threw".
scanWorkspace(outcome) ==
    CASE outcome.kind = "noFolder" -> [threw |-> TRUE, map |-> EmptyMap]
      [] outcome.kind \in {"noBinary", "noRules", "exitErr"} ->
            [threw |-> FALSE, map |-> EmptyMap]
      [] outcome.kind = "exit0" ->
            [threw |-> FALSE,
             map |-> GroupByFile(EmptyMap, parseResults(outcome.stdout))]

(***************************************************************************)
(* The findings tree view (views/findingsView.ts).                         *)
(***************************************************************************)
\* A store that keeps the entry of a path whose findings are none.
updateFindings_KeepEmpty(m, filePath, fs) == MapSet(m, filePath, fs)

\* FindingsProvider.updateFindings(filePath, findings)
updateFindings(m, filePath, fs) ==
    IF Len(fs) = 0 THEN MapDelete(m, filePath) ELSE MapSet(m, filePath, fs)

\* FindingsProvider.clearFindings()
clearFindings == EmptyMap

FindingsTreeItem(finding, filePath) == [finding |-> finding, filePath |-> filePath]

RECURSIVE TreeItems(_)
\* The two nested loops of getChildren: every finding of every entry, in
\* the Map's order.
TreeItems(m) ==
    IF m = <<>> THEN <<>>
    ELSE [i \in 1..Len(Head(m).val) |-> FindingsTreeItem(Head(m).val[i], Head(m).key)]
         \o TreeItems(Tail(m))

\* severityOrder[severity] || 999, with severityOrder = {ERROR: 0,
\* WARNING: 1, INFO: 2}: a looked-up 0 is falsy, and so is a missing key.
severityOrder(severity) ==
    LET looked == CASE severity = "ERROR" -> 0
                    [] severity = "WARNING" -> 1
                    [] severity = "INFO" -> 2
                    [] OTHER -> 0
    IN IF looked = 0 THEN 999 ELSE looked

\* The comparator handed to items.sort.
compareItems(a, b) ==
    LET severityA == severityOrder(a.finding.severity)
        severityB == severityOrder(b.finding.severity)
    IN IF severityA # severityB THEN severityA - severityB
       ELSE localeCompare(a.filePath, b.filePath)

\* x put into a sorted sequence after every item that does not sort after it.
InsertSorted(sorted, x) ==
    LET after == {i \in 1..Len(sorted) : compareItems(sorted[i], x) > 0}
        at == IF after = {} THEN Len(sorted) + 1
              ELSE CHOOSE i \in after : \A j \in after : i <= j
    IN SubSeq(sorted, 1, at - 1) \o <<x>> \o SubSeq(sorted, at, Len(sorted))

RECURSIVE SortItems(_)
\* Array.prototype.sort is stable: items that compare equal keep their order.
SortItems(items) ==
    IF items = <<>> THEN <<>>
    ELSE InsertSorted(SortItems(SubSeq(items, 1, Len(items) - 1)), items[Len(items)])

\* FindingsProvider.getChildren() at the root.
getChildren(m) == SortItems(TreeItems(m))

\* FindingsProvider.getTotalFindings()
getTotalFindings(m) == Len(TreeItems(m))

(***************************************************************************)
(* The diagnostics provider (diagnostics.ts).                              *)
(***************************************************************************)
\* severityLevels[severity] || 0, with severityLevels = {INFO: 0, WARNING: 1,
\* ERROR: 2}.
\* Levels that put a severity outside the table above ERROR.
severityLevels_UnknownHighest(severity) ==
    CASE severity = "INFO" -> 0
      [] severity = "WARNING" -> 1
      [] severity = "ERROR" -> 2
      [] OTHER -> 3

severityLevels(severity) ==
    CASE severity = "INFO" -> 0
      [] severity = "WARNING" -> 1
      [] severity = "ERROR" -> 2
      [] OTHER -> 0

\* A filter whose floor is exclusive.
shouldIncludeFinding_Above(finding, minSev) ==
    severityLevels(finding.severity) > severityLevels(minSev)

shouldIncludeFinding(finding, minSev) ==
    severityLevels(finding.severity) >= severityLevels(minSev)

getSeverity(severity) ==
    CASE severity = "ERROR" -> "Error"
      [] severity = "WARNING" -> "Warning"
      [] OTHER -> "Information"

findingToDiagnostic(finding) ==
    [code |-> finding.check_id,
     severity |-> getSeverity(finding.severity),
     source |-> "OpenGrep"]

\* A conversion that keeps every finding.
findingsToDiagnostics_Unfiltered(fs, minSev) ==
    [i \in 1..Len(fs) |-> findingToDiagnostic(fs[i])]

findingsToDiagnostics(fs, minSev) ==
    LET kept == SelectSeq(fs, LAMBDA f : shouldIncludeFinding(f, minSev))
    IN [i \in 1..Len(kept) |-> findingToDiagnostic(kept[i])]

\* Map.set / DiagnosticCollection.set on the documents' diagnostics.
SetDiagnostics(dd, uri, diagnostics) ==
    [u \in DOMAIN dd \cup {uri} |-> IF u = uri THEN diagnostics ELSE dd[u]]

NoDiagnostics == [u \in {} |-> <<>>]

(***************************************************************************)
(* The extension's scan handlers (extension.ts, diagnostics.ts), split at  *)
(* their awaits.                                                           *)
(***************************************************************************)
\* The findings the scanner can report.
FindingUniverse ==
    {Finding("r1", <<"a.py">>, "ERROR"),
     Finding("r2", <<".", "a.py">>, "WARNING"),
     Finding("r1", <<"b.py">>, "INFO")}

\* The results of a run: up to MaxFindings findings, each reported once, and
\* one result that reports a finding twice.
Distinct(seq) == \A i, j \in 1..Len(seq) : seq[i] = seq[j] => i = j

ScanResults ==
    {r \in SeqsUpTo(FindingUniverse, MaxFindings) : Distinct(r)}
    \cup {<<Finding("r1", <<"a.py">>, "ERROR"), Finding("r1", <<"a.py">>, "ERROR")>>}

\* The shapes of stdout that hold the results r: one JSON document on one
\* line, or over several lines, each alone or after a banner line.
Stdouts(r) ==
    {<<JsonLine(r)>>, <<TextLine, JsonLine(r)>>,
     <<OpenLine(r), RestLine>>, <<TextLine, OpenLine(r), RestLine>>}

StdoutsWithoutJson == {<<>>, <<TextLine>>, <<BadLine>>}

\* The results the shapes other than the first are tried with.
ShapeResults == {r \in ScanResults : Len(r) = MaxFindings /\ r[1] # r[Len(r)]}

\* Every way a run of the scanner ends.
Outcomes ==
    {Outcome(k, <<>>) : k \in {"noBinary", "noFolder", "noRules"}}
    \cup {Outcome(k, out) :
            k \in {"exit0", "exitErr"},
            out \in StdoutsWithoutJson
                    \cup {<<JsonLine(r)>> : r \in ScanResults}
                    \cup UNION {Stdouts(r) : r \in ShapeResults}}

\* The outcomes the interleavings are explored with: a scanner that exits
\* zero with one JSON document, and the ways a scan ends without a run.
CoreFindings ==
    {Finding("r1", <<"a.py">>, "ERROR"), Finding("r1", <<"b.py">>, "INFO")}

CoreOutcomes ==
    {Outcome("noFolder", <<>>), Outcome("noRules", <<>>)}
    \cup {Outcome("exit0", <<JsonLine(r)>>) :
            r \in {q \in SeqsUpTo(CoreFindings, MaxFindings) : Distinct(q)}}

RemoveAt(seq, i) == SubSeq(seq, 1, i - 1) \o SubSeq(seq, i + 1, Len(seq))

\* A call on the findings store: who made it, its arguments, and whether
\* the store held the path when it was made.
StoreCall(op, by, filePath, arg) ==
    [op |-> op, by |-> by, filePath |-> filePath, arg |-> arg,
     had |-> MapHas(findings, filePath), overtaken |-> FALSE]

NoCall == [op |-> "none", by |-> "none", filePath |-> <<>>, arg |-> <<>>,
           had |-> FALSE, overtaken |-> FALSE]
NoWsLog == [state |-> "none", map |-> EmptyMap, skipped |-> {}, before |-> EmptyMap]

\* scanDocument(document) up to its await of scanner.scanFile: a save event,
\* the scan command, the scan after a suppression, the activation scan.
StartScanDocument(filePath) ==
    /\ Len(scanTasks) < MaxInFlight
    /\ scanTasks' = Append(scanTasks, filePath)
    /\ overtaken' = Append(overtaken, FALSE)
    /\ UNCHANGED <<findings, documentDiagnostics, minSeverity, computedAt, wsPhase, wsGroups,
                   lastCall, wsLog>>

\* scanDocument after scanner.scanFile resolved.
FinishScanDocument(i, outcome) ==
    /\ i \in 1..Len(scanTasks)
    /\ LET filePath == scanTasks[i]
           fs == scanFile(filePath, outcome)
           diagnostics == findingsToDiagnostics(fs, minSeverity)
       IN /\ documentDiagnostics' = SetDiagnostics(documentDiagnostics, filePath, diagnostics)
          /\ computedAt' = SetDiagnostics(computedAt, filePath, minSeverity)
          /\ findings' = updateFindings(findings, filePath, fs)
          /\ lastCall' = [StoreCall("updateFindings", "scanDocument", filePath, fs)
                           EXCEPT !.overtaken = overtaken[i]]
          \* the calls of the file issued before this one are overtaken
          /\ overtaken' = RemoveAt([j \in 1..Len(scanTasks) |->
                                      overtaken[j] \/ (j < i /\ scanTasks[j] = filePath)],
                                  i)
    /\ scanTasks' = RemoveAt(scanTasks, i)
    /\ wsLog' = IF wsLog.state = "done" THEN NoWsLog ELSE wsLog
    /\ UNCHANGED <<minSeverity, wsPhase, wsGroups>>

\* diagnostics.scanWorkspace() up to its await of scanner.scanWorkspace.
StartScanWorkspace ==
    /\ wsPhase = "idle"
    /\ wsPhase' = "scanning"
    /\ wsLog' = NoWsLog
    /\ UNCHANGED <<findings, documentDiagnostics, minSeverity, computedAt, scanTasks, overtaken,
                   wsGroups, lastCall>>

\* diagnostics.scanWorkspace() after scanner.scanWorkspace settled: the
\* clears, and the loop up to its first await of openTextDocument.
WorkspaceScanReturn(outcome) ==
    /\ wsPhase = "scanning"
    /\ LET r == scanWorkspace(outcome) IN
       IF r.threw
       THEN /\ wsPhase' = "idle"
            /\ wsLog' = [state |-> "threw", map |-> EmptyMap, skipped |-> {},
                         before |-> EmptyMap]
            /\ UNCHANGED <<findings, documentDiagnostics, computedAt, wsGroups, lastCall>>
       ELSE /\ documentDiagnostics' = NoDiagnostics
            /\ computedAt' = NoDiagnostics
            /\ findings' = clearFindings
            /\ lastCall' = StoreCall("clearFindings", "scanWorkspace", <<>>, <<>>)
            /\ wsGroups' = r.map
            /\ wsPhase' = IF r.map = <<>> THEN "idle" ELSE "opening"
            /\ wsLog' = [state |-> IF r.map = <<>> THEN "done" ELSE "running",
                         map |-> r.map, skipped |-> {},
                         before |-> IF r.map = <<>> THEN EmptyMap ELSE findings]
    /\ UNCHANGED <<minSeverity, scanTasks, overtaken>>

\* A loop that a document which does not open ends.
OpenTextDocumentDone_StopAtFailure(opened) ==
    /\ wsPhase = "opening"
    /\ LET filePath == Head(wsGroups).key
           fs == Head(wsGroups).val
           last == Len(wsGroups) = 1 \/ ~opened
       IN /\ IF opened
             THEN /\ documentDiagnostics' =
                        SetDiagnostics(documentDiagnostics, filePath,
                                       findingsToDiagnostics(fs, minSeverity))
                  /\ computedAt' = SetDiagnostics(computedAt, filePath, minSeverity)
                  /\ findings' = updateFindings(findings, filePath, fs)
                  /\ lastCall' = StoreCall("updateFindings", "scanWorkspace", filePath, fs)
             ELSE UNCHANGED <<findings, documentDiagnostics, computedAt, lastCall>>
          /\ wsGroups' = IF opened THEN Tail(wsGroups) ELSE EmptyMap
          /\ wsPhase' = IF last THEN "idle" ELSE "opening"
          /\ wsLog' = [wsLog EXCEPT
                         !.state = IF last THEN "done" ELSE "running",
                         !.before = IF last THEN EmptyMap ELSE @,
                         !.skipped = IF opened THEN @ ELSE @ \cup {filePath}]
    /\ UNCHANGED <<minSeverity, scanTasks, overtaken>>

\* One turn of the repopulation loop, after openTextDocument settled: the
\* entry is stored when the document opened and skipped when it did not.
OpenTextDocumentDone(opened) ==
    /\ wsPhase = "opening"
    /\ LET filePath == Head(wsGroups).key
           fs == Head(wsGroups).val
           last == Len(wsGroups) = 1
       IN /\ IF opened
             THEN /\ documentDiagnostics' =
                        SetDiagnostics(documentDiagnostics, filePath,
                                       findingsToDiagnostics(fs, minSeverity))
                  /\ computedAt' = SetDiagnostics(computedAt, filePath, minSeverity)
                  /\ findings' = updateFindings(findings, filePath, fs)
                  /\ lastCall' = StoreCall("updateFindings", "scanWorkspace", filePath, fs)
             ELSE UNCHANGED <<findings, documentDiagnostics, computedAt, lastCall>>
          /\ wsGroups' = Tail(wsGroups)
          /\ wsPhase' = IF last THEN "idle" ELSE "opening"
          /\ wsLog' = [wsLog EXCEPT
                         !.state = IF last THEN "done" ELSE "running",
                         !.before = IF last THEN EmptyMap ELSE @,
                         !.skipped = IF opened THEN @ ELSE @ \cup {filePath}]
    /\ UNCHANGED <<minSeverity, scanTasks, overtaken>>

\* The opengrep.clearFindings command: clearAll(), then clearFindings().
ClearFindingsCommand ==
    /\ documentDiagnostics' = NoDiagnostics
    /\ computedAt' = NoDiagnostics
    /\ findings' = clearFindings
    /\ lastCall' = StoreCall("clearFindings", "command", <<>>, <<>>)
    /\ wsLog' = IF wsLog.state = "done" THEN NoWsLog ELSE wsLog
    /\ UNCHANGED <<minSeverity, scanTasks, overtaken, wsPhase, wsGroups>>

\* The user changes the opengrep.severity setting.
ChangeSeverity(severity) ==
    /\ severity # minSeverity
    /\ minSeverity' = severity
    /\ UNCHANGED <<findings, documentDiagnostics, computedAt, scanTasks, overtaken, wsPhase,
                   wsGroups, lastCall, wsLog>>

InitExtension ==
    /\ findings = EmptyMap
    /\ documentDiagnostics = NoDiagnostics
    /\ minSeverity = "INFO"
    /\ computedAt = NoDiagnostics
    /\ scanTasks = <<>>
    /\ overtaken = <<>>
    /\ wsPhase = "idle"
    /\ wsGroups = EmptyMap
    /\ lastCall = NoCall
    /\ wsLog = NoWsLog

(***************************************************************************)
(* The suppression handler (suppression.ts).  A line of the document is    *)
(* its sequence of tokens; the text of an edit is a sequence of tokens in  *)
(* which "\n" ends a line.                                                 *)
(***************************************************************************)
\* A table that falls back to a comment token.
getCommentStyle_Fallback(language) ==
    IF language \in {"python", "ruby"} THEN "#" ELSE "//"

\* SuppressionHandler.getCommentStyle: commentStyles[languageId] || null
getCommentStyle(language) ==
    CASE language = "python" -> "#"
      [] language = "javascript" -> "//"
      [] language = "typescript" -> "//"
      [] language = "java" -> "//"
      [] language = "go" -> "//"
      [] language = "c" -> "//"
      [] language = "cpp" -> "//"
      [] language = "csharp" -> "//"
      [] language = "ruby" -> "#"
      [] language = "php" -> "//"
      [] language = "rust" -> "//"
      [] language = "kotlin" -> "//"
      [] language = "scala" -> "//"
      [] language = "swift" -> "//"
      [] OTHER -> "null"

\* String.includes, on tokens.
includes(lineText, word) == \E i \in 1..Len(lineText) : lineText[i] = word

\* A check that knows the nogrep marker only.
AlreadySuppressed_NogrepOnly(lineText) ==
    \E i \in 1..Len(lineText) : lineText[i] = "nogrep"

\* The check of suppressFinding for a line that is suppressed already.
AlreadySuppressed(lineText) ==
    includes(lineText, "nosemgrep") \/ includes(lineText, "nogrep")

\* `${commentStyle} nosemgrep: ${check_id}`
suppressComment(commentStyle, ruleId) ==
    <<commentStyle, " ", "nosemgrep", ":", " ", ruleId>>

\* An edit that puts the comment at the start of the line.
SuppressFindingEdit_AtLineStart(d, line, commentStyle, ruleId) ==
    [line |-> line, character |-> 0,
     text |-> <<" ", commentStyle, " ", "nosemgrep", ":", " ", ruleId>>]

\* The edit of suppressFinding: ` ${suppressComment}` at the end of the line.
SuppressFindingEdit(d, line, commentStyle, ruleId) ==
    [line |-> line, character |-> Len(d[line + 1]),
     text |-> <<" ">> \o suppressComment(commentStyle, ruleId)]

\* An edit that puts the comment before the first line's text, on its line.
SuppressRuleInFileEdit_NoLineBreak(commentStyle, ruleId) ==
    [line |-> 0, character |-> 0,
     text |-> <<commentStyle, " ", "nosemgrep", ":", " ", ruleId>>]

\* The edit of suppressRuleInFile: the comment and a line break at (0, 0).
SuppressRuleInFileEdit(commentStyle, ruleId) ==
    [line |-> 0, character |-> 0,
     text |-> suppressComment(commentStyle, ruleId) \o <<"\n">>]

RECURSIVE SplitLines(_, _)
\* The lines of a text: cur is the line being read.
SplitLines(cur, text) ==
    IF text = <<>> THEN <<cur>>
    ELSE IF Head(text) = "\n" THEN <<cur>> \o SplitLines(<<>>, Tail(text))
    ELSE SplitLines(Append(cur, Head(text)), Tail(text))

\* workspace.applyEdit of one insert: the text goes in at the position.
InsertText(d, edit) ==
    LET old == d[edit.line + 1]
        joined == SubSeq(old, 1, edit.character) \o edit.text
                  \o SubSeq(old, edit.character + 1, Len(old))
    IN SubSeq(d, 1, edit.line) \o SplitLines(<<>>, joined)
       \o SubSeq(d, edit.line + 2, Len(d))

NoRun == [ruleId |-> "none", calls |-> 0, base |-> <<>>]

\* Whether the call now made repeats the last one: a suppressFinding of the
\* same line and rule whose edit was applied.
Repeats(line, ruleId) ==
    /\ lastSuppress # None
    /\ lastSuppress.op = "suppressFinding"
    /\ lastSuppress.applied
    /\ lastSuppress.line = line
    /\ lastSuppress.check_id = ruleId

\* The scan the command handler starts when the suppression has returned:
\* the scanner reads the file on disk.
Rescan(onDisk) == [sees |-> onDisk]

Call(op, line, ruleId, outcome, repeat) ==
    [op |-> op, line |-> line, check_id |-> ruleId, before |-> doc,
     diskBefore |-> disk, language |-> languageId, outcome |-> outcome,
     applied |-> FALSE, repeat |-> repeat]

\* The line suppressFinding edits: position.line, or the finding's 1-based
\* line made 0-based.
suppressFindingLine(startLine, position) ==
    IF position # None THEN position.line ELSE startLine - 1

\* suppressFinding(document, finding, position) up to its await of applyEdit.
\* startLine is finding.start.line; position is None when none is given.
SuppressFindingCall(startLine, position, ruleId) ==
    /\ pcS = "idle"
    /\ LET line == suppressFindingLine(startLine, position)
           commentStyle == getCommentStyle(languageId)
           repeat == Repeats(line, ruleId)
       IN IF line < 0 \/ line >= Len(doc)
          THEN \* document.lineAt(line) throws: the command ends there
               /\ lastSuppress' = Call("suppressFinding", line, ruleId, "threw", repeat)
               /\ rescan' = None
               /\ UNCHANGED <<pcS, pendingEdit>>
          ELSE IF commentStyle = "null"
          THEN /\ lastSuppress' = Call("suppressFinding", line, ruleId, "unsupported", repeat)
               /\ rescan' = Rescan(disk)
               /\ UNCHANGED <<pcS, pendingEdit>>
          ELSE IF AlreadySuppressed(doc[line + 1])
          THEN /\ lastSuppress' = Call("suppressFinding", line, ruleId, "already", repeat)
               /\ rescan' = Rescan(disk)
               /\ UNCHANGED <<pcS, pendingEdit>>
          ELSE /\ lastSuppress' = Call("suppressFinding", line, ruleId, "pending", repeat)
               /\ pendingEdit' = SuppressFindingEdit(doc, line, commentStyle, ruleId)
               /\ rescan' = None
               /\ pcS' = "applyEdit"
    /\ fileWideRun' = NoRun
    /\ UNCHANGED <<doc, disk, languageId>>

\* suppressRuleInFile(document, ruleId) up to its await of applyEdit.
SuppressRuleInFileCall(ruleId) ==
    /\ pcS = "idle"
    /\ Len(doc) < MaxLines
    /\ LET commentStyle == getCommentStyle(languageId) IN
       IF commentStyle = "null"
       THEN /\ lastSuppress' = Call("suppressRuleInFile", 0, ruleId, "unsupported", FALSE)
            /\ fileWideRun' = NoRun
            /\ rescan' = Rescan(disk)
            /\ UNCHANGED <<pcS, pendingEdit>>
       ELSE /\ lastSuppress' = Call("suppressRuleInFile", 0, ruleId, "pending", FALSE)
            /\ pendingEdit' = SuppressRuleInFileEdit(commentStyle, ruleId)
            /\ fileWideRun' =
                   IF fileWideRun.ruleId = ruleId
                   THEN [fileWideRun EXCEPT !.calls = @ + 1]
                   ELSE [ruleId |-> ruleId, calls |-> 1, base |-> doc]
            /\ rescan' = None
            /\ pcS' = "applyEdit"
    /\ UNCHANGED <<doc, disk, languageId>>

\* workspace.applyEdit(edit) settled: the host applied the edit or refused it.
\* The handler does not read the answer and goes on to document.save().
ApplyEditDone(ok) ==
    /\ pcS = "applyEdit"
    /\ doc' = IF ok THEN InsertText(doc, pendingEdit) ELSE doc
    /\ lastSuppress' = [lastSuppress EXCEPT !.applied = ok]
    \* a refused edit ends the run of calls that took effect
    /\ fileWideRun' = IF ok THEN fileWideRun ELSE NoRun
    /\ pendingEdit' = None
    /\ pcS' = "save"
    /\ UNCHANGED <<disk, languageId, rescan>>

\* document.save() settled: the buffer is on disk, or the save failed.  The
\* handler does not read the answer and shows its message; the command
\* handler that awaited it goes on to diagnosticProvider.scanDocument.
SaveDone(ok) ==
    /\ pcS = "save"
    /\ disk' = IF ok THEN doc ELSE disk
    /\ lastSuppress' = [lastSuppress EXCEPT !.outcome = "success"]
    /\ rescan' = Rescan(disk')
    /\ pcS' = "idle"
    /\ UNCHANGED <<doc, languageId, pendingEdit, fileWideRun>>

\* The lines a document is opened with.
LineUniverse ==
    {<<>>, <<"x">>,
     <<"x", " ", "#", " ", "nosemgrep", ":", " ", "r1">>,
     <<"x", " ", "//", " ", "nogrep">>}

Languages == {"python", "typescript", "plaintext"}

RuleIds == {"r1", "r2"}

InitSuppression ==
    /\ doc \in SeqsUpTo(LineUniverse, MaxInitLines) \ {<<>>}
    /\ disk = doc
    /\ languageId \in Languages
    /\ pcS = "idle"
    /\ pendingEdit = None
    /\ lastSuppress = None
    /\ fileWideRun = NoRun
    /\ rescan = None

\* The positions a selection can start at, and no position.
Positions == {None} \cup {[line |-> l] : l \in 0..(Len(doc) - 1)}

NextSuppress ==
    /\ \/ \E startLine \in 0..(Len(doc) + 1), position \in Positions, ruleId \in RuleIds :
              SuppressFindingCall(startLine, position, ruleId)
       \/ \E ruleId \in RuleIds : SuppressRuleInFileCall(ruleId)
       \/ \E ok \in BOOLEAN : ApplyEditDone(ok)
       \/ \E ok \in BOOLEAN : SaveDone(ok)
    /\ UNCHANGED <<extVars, globalVars, saveVars, funVars>>

InitSuppress ==
    InitExtension /\ InitSuppression /\ IdleGlobal /\ IdleSave /\ IdleFunctions

SpecSuppress == InitSuppress /\ [][NextSuppress]_vars

(***************************************************************************)
(* The quick fix of the code action provider (provider.ts), offered on a   *)
(* diagnostic of source OpenGrep, next to the suppression commands.        *)
(***************************************************************************)
\* The suppression markers a line holds.
Markers(lineText) ==
    Cardinality({i \in 1..Len(lineText) : lineText[i] \in {"nosemgrep", "nogrep"}})

\* createSuppressAction: ` // nosemgrep: ${diagnostic.code}` at the end of
\* the diagnostic's line.
QuickFixEdit(d, line, code) ==
    [line |-> line, character |-> Len(d[line + 1]),
     text |-> <<" ", "//", " ", "nosemgrep", ":", " ", code>>]

\* The user picks the quick fix of a diagnostic on the line: the host
\* applies the action's edit.  Nothing is saved and no scan is started.
QuickFix(line, code) ==
    /\ pcS = "idle"
    /\ line \in 0..(Len(doc) - 1)
    /\ Markers(doc[line + 1]) < MaxMarkers
    /\ doc' = InsertText(doc, QuickFixEdit(doc, line, code))
    /\ lastSuppress' = [Call("quickFix", line, code, "applied", FALSE)
                           EXCEPT !.applied = TRUE]
    /\ fileWideRun' = NoRun
    /\ rescan' = None
    /\ UNCHANGED <<disk, languageId, pcS, pendingEdit>>

NextQuickFix ==
    \/ NextSuppress
    \/ /\ \E line \in 0..(MaxLines - 1), code \in RuleIds : QuickFix(line, code)
       /\ UNCHANGED <<extVars, globalVars, saveVars, funVars>>

SpecQuickFix == InitSuppress /\ [][NextQuickFix]_vars

(***************************************************************************)
(* The specification of the scan handlers under every interleaving of      *)
(* their awaits.  The suppression handler's document stays as it is.       *)
(***************************************************************************)
IdleSuppression ==
    /\ doc = <<>>
    /\ disk = <<>>
    /\ languageId = "plaintext"
    /\ pcS = "idle"
    /\ pendingEdit = None
    /\ lastSuppress = None
    /\ fileWideRun = NoRun
    /\ rescan = None

Init == InitExtension /\ IdleSuppression /\ IdleGlobal /\ IdleSave /\ IdleFunctions

Next ==
    /\ \/ \E filePath \in Files : StartScanDocument(filePath)
       \/ \E i \in 1..MaxInFlight, outcome \in CoreOutcomes : FinishScanDocument(i, outcome)
       \/ StartScanWorkspace
       \/ \E outcome \in CoreOutcomes : WorkspaceScanReturn(outcome)
       \/ \E opened \in BOOLEAN : OpenTextDocumentDone(opened)
       \/ ClearFindingsCommand
    /\ UNCHANGED <<supVars, globalVars, saveVars, funVars>>

Spec == Init /\ [][Next]_vars

(***************************************************************************)
(* The specification of the scan handlers with the opengrep.severity       *)
(* setting changing between their steps: a project scan, the clear command *)
(* and one per-file scan at a time, interleaved at their awaits.           *)
(***************************************************************************)
NextSeverity ==
    /\ \/ \E filePath \in Files : scanTasks = <<>> /\ StartScanDocument(filePath)
       \/ \E outcome \in CoreOutcomes : FinishScanDocument(1, outcome)
       \/ StartScanWorkspace
       \/ \E outcome \in CoreOutcomes : WorkspaceScanReturn(outcome)
       \/ \E opened \in BOOLEAN : OpenTextDocumentDone(opened)
       \/ ClearFindingsCommand
       \/ \E severity \in Severities : ChangeSeverity(severity)
    /\ UNCHANGED <<supVars, globalVars, saveVars, funVars>>

SpecSeverity == Init /\ [][NextSeverity]_vars

(***************************************************************************)
(* Scan on save (extension.ts, activate): the setting is read when the     *)
(* extension activates, and the listener is registered when it is on.      *)
(***************************************************************************)
\* The schemes of the documents the host saves.
Schemes == {"file", "vscode-remote"}

\* The user changes the opengrep.scanOnSave setting.
ChangeScanOnSave ==
    /\ scanOnSave' = ~scanOnSave
    /\ UNCHANGED <<saveListener, lastSave, extVars>>

\* The host saved a document: onDidSaveTextDocument fires, and the listener,
\* when there is one, calls scanDocument for a document of the file scheme.
SaveDocument(filePath, scheme) ==
    /\ IF saveListener /\ scheme = "file"
       THEN /\ StartScanDocument(filePath)
            /\ lastSave' = [filePath |-> filePath, scheme |-> scheme,
                            setting |-> scanOnSave, scanned |-> TRUE]
       ELSE /\ lastSave' = [filePath |-> filePath, scheme |-> scheme,
                            setting |-> scanOnSave, scanned |-> FALSE]
            /\ UNCHANGED extVars
    /\ UNCHANGED <<scanOnSave, saveListener>>

\* activate: config.get('scanOnSave') decides whether the listener exists.
InitSave ==
    /\ scanOnSave \in BOOLEAN
    /\ saveListener = scanOnSave
    /\ lastSave = None

InitScanOnSave ==
    InitExtension /\ IdleSuppression /\ IdleGlobal /\ InitSave /\ IdleFunctions

NextSave ==
    /\ \/ ChangeScanOnSave
       \/ \E filePath \in Files, scheme \in Schemes : SaveDocument(filePath, scheme)
       \/ /\ \E i \in 1..MaxInFlight, outcome \in CoreOutcomes :
                 FinishScanDocument(i, outcome)
          /\ UNCHANGED saveVars
    /\ UNCHANGED <<supVars, globalVars, funVars>>

SpecSave == InitScanOnSave /\ [][NextSave]_vars

(***************************************************************************)
(* The specification of the scan handlers run one at a time (each command  *)
(* awaited before the next is given), with every outcome of the scanner,   *)
(* under each value of the opengrep.severity setting.                      *)
(***************************************************************************)
Quiet == scanTasks = <<>> /\ wsPhase = "idle"

NextStore ==
    /\ \/ \E filePath \in Files : Quiet /\ StartScanDocument(filePath)
       \/ \E outcome \in Outcomes : FinishScanDocument(1, outcome)
       \/ Quiet /\ StartScanWorkspace
       \/ \E outcome \in Outcomes : WorkspaceScanReturn(outcome)
       \/ \E opened \in BOOLEAN : OpenTextDocumentDone(opened)
       \/ Quiet /\ ClearFindingsCommand
    /\ UNCHANGED <<supVars, globalVars, saveVars, funVars>>

\* The opengrep.severity setting is the one the user configured.
InitStore ==
    /\ findings = EmptyMap
    /\ documentDiagnostics = NoDiagnostics
    /\ minSeverity \in Severities
    /\ computedAt = NoDiagnostics
    /\ scanTasks = <<>>
    /\ overtaken = <<>>
    /\ wsPhase = "idle"
    /\ wsGroups = EmptyMap
    /\ lastCall = NoCall
    /\ wsLog = NoWsLog
    /\ IdleSuppression
    /\ IdleGlobal
    /\ IdleSave
    /\ IdleFunctions

SpecStore == InitStore /\ [][NextStore]_vars

(***************************************************************************)
(* Global suppression (suppression.ts, suppressRuleGlobally).  The values  *)
(* yaml.parse gives are JavaScript values: undefined, null, a string (a    *)
(* sequence of tokens), an array (its items, and the named properties set  *)
(* on it) and an object (its entries in insertion order).                  *)
(***************************************************************************)
Undef == [t |-> "undefined"]
Null == [t |-> "null"]
Str(tokens) == [t |-> "str", s |-> tokens]
SeqP(items, props) == [t |-> "seq", items |-> items, props |-> props]
Arr(items) == SeqP(items, <<>>)
Obj(entries) == [t |-> "map", entries |-> entries]
Entry(k, v) == [key |-> k, val |-> v]

\* !value
Falsy(v) == v.t \in {"undefined", "null"} \/ (v.t = "str" /\ v.s = <<>>)

\* value[key]
GetProp(v, k) ==
    CASE v.t = "map" -> IF MapHas(v.entries, k) THEN MapGet(v.entries, k) ELSE Undef
      [] v.t = "seq" -> IF MapHas(v.props, k) THEN MapGet(v.props, k) ELSE Undef
      [] OTHER -> Undef

\* value[key] = x throws a TypeError on a primitive (the module is strict).
CanSetProp(v) == v.t \in {"map", "seq"}

SetProp(v, k, x) ==
    IF v.t = "map" THEN Obj(MapSet(v.entries, k, x))
    ELSE SeqP(v.items, MapSet(v.props, k, x))

\* value.includes(ruleId): Array.prototype.includes, String.prototype.includes;
\* an object has no such method.
HasIncludes(v) == v.t \in {"seq", "str"}

Includes(v, ruleId) ==
    IF v.t = "seq" THEN \E i \in 1..Len(v.items) : v.items[i] = Str(<<ruleId>>)
    ELSE \E i \in 1..Len(v.s) : v.s[i] = ruleId

\* value.push(ruleId) is a method of arrays only.
CanPush(v) == v.t = "seq"

Push(v, ruleId) == SeqP(Append(v.items, Str(<<ruleId>>)), v.props)

\* Lines 141-150 of suppressRuleGlobally: the config with the rule added to
\* rules.exclude, or the TypeError a step of it throws.
AddExclusion(config, ruleId) ==
    IF Falsy(GetProp(config, "rules")) /\ ~CanSetProp(config)
    THEN [threw |-> TRUE, config |-> config]
    ELSE
    LET config1 == IF Falsy(GetProp(config, "rules"))
                   THEN SetProp(config, "rules", Obj(<<>>)) ELSE config
        rules1 == GetProp(config1, "rules")
    IN IF Falsy(GetProp(rules1, "exclude")) /\ ~CanSetProp(rules1)
       THEN [threw |-> TRUE, config |-> config]
       ELSE
       LET rules2 == IF Falsy(GetProp(rules1, "exclude"))
                     THEN SetProp(rules1, "exclude", Arr(<<>>)) ELSE rules1
           exclude == GetProp(rules2, "exclude")
       IN IF ~HasIncludes(exclude)
          THEN [threw |-> TRUE, config |-> config]
          ELSE IF Includes(exclude, ruleId)
          THEN [threw |-> FALSE, config |-> SetProp(config1, "rules", rules2)]
          ELSE IF ~CanPush(exclude)
          THEN [threw |-> TRUE, config |-> config]
          ELSE [threw |-> FALSE,
                config |-> SetProp(config1, "rules",
                                   SetProp(rules2, "exclude", Push(exclude, ruleId)))]

RECURSIVE Represented(_)
\* What yaml.stringify writes of a value, read back: a YAML sequence holds
\* the array's items and none of its named properties.
Represented(v) ==
    CASE v.t = "map" ->
            Obj([i \in 1..Len(v.entries) |->
                    Entry(v.entries[i].key, Represented(v.entries[i].val))])
      [] v.t = "seq" ->
            Arr([i \in 1..Len(v.items) |-> Represented(v.items[i])])
      [] OTHER -> v

\* .semgrep.yml on disk: absent, text that is not YAML, or a YAML document.
InvalidFile == [kind |-> "invalid"]
YamlFile(v) == [kind |-> "yaml", value |-> v]

\* A parser that reads text that is not YAML as an empty document.
yamlParse_Lenient(content) ==
    IF content.kind = "invalid" THEN [threw |-> FALSE, config |-> Obj(<<>>)]
    ELSE [threw |-> FALSE,
          config |-> IF Falsy(content.value) THEN Obj(<<>>) ELSE content.value]

\* yaml.parse(content) || {}, or the error yaml.parse throws.
yamlParse(content) ==
    IF content.kind = "invalid" THEN [threw |-> TRUE, config |-> Obj(<<>>)]
    ELSE [threw |-> FALSE,
          config |-> IF Falsy(content.value) THEN Obj(<<>>) ELSE content.value]

\* yaml.stringify(config)
yamlStringify(config) == YamlFile(Represented(config))

GlobalCall(ruleId, outcome) ==
    [ruleId |-> ruleId, before |-> configFile, outcome |-> outcome,
     again |-> /\ lastGlobal # None
               /\ lastGlobal.ruleId = ruleId
               /\ lastGlobal.outcome = "success"]

\* suppressRuleGlobally(ruleId) up to its first await: of import('yaml')
\* before the parse when the file exists, else of the one before the write.
SuppressRuleGloballyCall(ruleId, folder) ==
    /\ pcG = "idle"
    /\ IF ~folder
       THEN /\ lastGlobal' = GlobalCall(ruleId, "noFolder")
            /\ UNCHANGED <<pcG, localG>>
       ELSE IF configFile # NoFile
       THEN /\ lastGlobal' = GlobalCall(ruleId, "pending")
            /\ localG' = [ruleId |-> ruleId, content |-> configFile]
            /\ pcG' = "parse"
       ELSE /\ lastGlobal' = GlobalCall(ruleId, "pending")
            /\ localG' = [ruleId |-> ruleId,
                          config |-> AddExclusion(Obj(<<>>), ruleId).config]
            /\ pcG' = "write"
    /\ UNCHANGED configFile

\* The import before the parse resolved: the parse, and the rule added,
\* up to the await of the import before the write.
ParseConfigDone ==
    /\ pcG = "parse"
    /\ LET parsed == yamlParse(localG.content)
           added == AddExclusion(parsed.config, localG.ruleId)
       IN IF parsed.threw
          THEN /\ lastGlobal' = [lastGlobal EXCEPT !.outcome = "parseError"]
               /\ localG' = None
               /\ pcG' = "idle"
          ELSE IF added.threw
          THEN /\ lastGlobal' = [lastGlobal EXCEPT !.outcome = "threw"]
               /\ localG' = None
               /\ pcG' = "idle"
          ELSE /\ localG' = [ruleId |-> localG.ruleId, config |-> added.config]
               /\ pcG' = "write"
               /\ UNCHANGED lastGlobal
    /\ UNCHANGED configFile

\* The import before the write resolved: fs.writeFileSync writes the file
\* or throws, and the message of success follows the write.
WriteConfigDone(written) ==
    /\ pcG = "write"
    /\ configFile' = IF written THEN yamlStringify(localG.config) ELSE configFile
    /\ lastGlobal' = [lastGlobal EXCEPT !.outcome = IF written THEN "success" ELSE "threw"]
    /\ localG' = None
    /\ pcG' = "idle"

\* The values of rules.exclude, of rules and of the document in the
\* .semgrep.yml a call can find.
ExcludeValues ==
    {Null, Str(<<"r1">>)}
    \cup {Arr(l) : l \in SeqsUpTo({Str(<<"r1">>), Str(<<"r2">>)}, MaxExclude)}

RulesValues ==
    {Null, Str(<<"x">>), Arr(<<Obj(<<Entry("id", Str(<<"r1">>))>>)>>)}
    \cup {Obj(pre \o ex) :
            pre \in {<<>>, <<Entry("paths", Str(<<"src">>))>>},
            ex \in {<<>>} \cup {<<Entry("exclude", e)>> : e \in ExcludeValues}}

ConfigValues ==
    {Null, Str(<<"x">>)}
    \cup {Obj(pre \o r) :
            pre \in {<<>>, <<Entry("version", Str(<<"1">>))>>},
            r \in {<<>>} \cup {<<Entry("rules", v)>> : v \in RulesValues}}

ConfigFiles == {NoFile, InvalidFile} \cup {YamlFile(v) : v \in ConfigValues}

InitGlobal ==
    /\ InitExtension
    /\ IdleSuppression
    /\ IdleSave
    /\ IdleFunctions
    /\ configFile \in ConfigFiles
    /\ pcG = "idle"
    /\ localG = None
    /\ lastGlobal = None

NextGlobal ==
    /\ \/ \E ruleId \in RuleIds, folder \in BOOLEAN :
              SuppressRuleGloballyCall(ruleId, folder)
       \/ ParseConfigDone
       \/ \E written \in BOOLEAN : WriteConfigDone(written)
    /\ UNCHANGED <<extVars, supVars, saveVars, funVars>>

SpecGlobal == InitGlobal /\ [][NextGlobal]_vars

(***************************************************************************)
(* The specification of the functions of the scanner and of the position   *)
(* conversions: the arguments and the environment are drawn at the start,  *)
(* and one step applies the function to them.                              *)
(***************************************************************************)
\* What a scan finds around it: whether getBinaryPath resolves, whether a
\* workspace folder is open, whether the rules directory exists, and the
\* exit code and stdout of the scanner process if it is run.
Stdouts_All == StdoutsWithoutJson \cup UNION {Stdouts(r) : r \in ScanResults}

ScanEnvs ==
    [binary : BOOLEAN, folder : BOOLEAN, rules : BOOLEAN, exit : {0, 1},
     stdout : Stdouts_All]

Launched(kind) == kind \in {"exit0", "exitErr"}

ExitKind(env) == IF env.exit = 0 THEN "exit0" ELSE "exitErr"

\* scanFile's way through its checks: the binary, the folder, the rules,
\* then the process.
scanFileKind(env) ==
    IF ~env.binary THEN "noBinary"
    ELSE IF ~env.folder THEN "noFolder"
    ELSE IF ~env.rules THEN "noRules"
    ELSE ExitKind(env)

\* A way through the checks that does not look for the rules directory.
scanWorkspaceKind_NoRulesCheck(env) ==
    IF ~env.folder THEN "noFolder"
    ELSE IF ~env.binary THEN "noBinary"
    ELSE ExitKind(env)

\* scanWorkspace's way through its checks: the folder, the binary, the
\* rules, then the process.
scanWorkspaceKind(env) ==
    IF ~env.folder THEN "noFolder"
    ELSE IF ~env.binary THEN "noBinary"
    ELSE IF ~env.rules THEN "noRules"
    ELSE ExitKind(env)

\* Math.max(0, n - 1) of findingToDiagnostic.
Max0(n) == IF n - 1 > 0 THEN n - 1 ELSE 0

Position(line, character) == [line |-> line, character |-> character]

\* findingToDiagnostic: the range of the diagnostic.
diagnosticRange(start, end) ==
    [start |-> Position(Max0(start.line), Max0(start.col)),
     end |-> Position(Max0(end.line), Max0(end.col))]

\* goToFinding: startPos and endPos.
goToFindingRange(start, end) ==
    [start |-> Position(start.line - 1, start.col - 1),
     end |-> Position(end.line - 1, end.col - 1)]

\* The positions the scanner reports: 1-based, and 0.
ReportedPositions == [line : 0..2, col : 0..2]

\* Severities as the scanner and the settings file can spell them: those of
\* the table, and one outside it.
SpelledSeverities == Severities \cup {"CRITICAL"}

FilterInputs ==
    [fs : SeqsUpTo({Finding("r1", <<"a.py">>, sev) : sev \in SpelledSeverities},
                   MaxFindings),
     minSeverity : SpelledSeverities]

FunctionInputs ==
    {[op |-> "findingsToDiagnostics", fs |-> x.fs, minSeverity |-> x.minSeverity] :
        x \in FilterInputs}
    \cup {[op |-> "scanFile", filePath |-> f, env |-> e] : f \in Files, e \in ScanEnvs}
    \cup {[op |-> "scanWorkspace", env |-> e] : e \in ScanEnvs}
    \cup {[op |-> "parseResults", stdout |-> o] : o \in Stdouts_All}
    \cup {[op |-> "convert", start |-> a, end |-> b] :
            a \in ReportedPositions, b \in ReportedPositions}

ApplyScanFile ==
    /\ funIn.op = "scanFile" /\ funOut = None
    /\ LET kind == scanFileKind(funIn.env) IN
       funOut' = [threw |-> FALSE, launched |-> Launched(kind),
                  findings |-> scanFile(funIn.filePath, Outcome(kind, funIn.env.stdout))]
    /\ UNCHANGED funIn

ApplyScanWorkspace ==
    /\ funIn.op = "scanWorkspace" /\ funOut = None
    /\ LET kind == scanWorkspaceKind(funIn.env)
           got == scanWorkspace(Outcome(kind, funIn.env.stdout))
       IN funOut' = [threw |-> got.threw, launched |-> Launched(kind), map |-> got.map]
    /\ UNCHANGED funIn

ApplyParseResults ==
    /\ funIn.op = "parseResults" /\ funOut = None
    /\ funOut' = [results |-> parseResults(funIn.stdout)]
    /\ UNCHANGED funIn

ApplyConvert ==
    /\ funIn.op = "convert" /\ funOut = None
    /\ funOut' = [diagnostic |-> diagnosticRange(funIn.start, funIn.end),
                  goTo |-> goToFindingRange(funIn.start, funIn.end),
                  suppressLine |-> suppressFindingLine(funIn.start.line, None)]
    /\ UNCHANGED funIn

ApplyFindingsToDiagnostics ==
    /\ funIn.op = "findingsToDiagnostics" /\ funOut = None
    /\ funOut' = [diagnostics |-> findingsToDiagnostics(funIn.fs, funIn.minSeverity)]
    /\ UNCHANGED funIn

InitFunctions ==
    /\ InitExtension
    /\ IdleSuppression
    /\ IdleGlobal
    /\ IdleSave
    /\ funIn \in FunctionInputs
    /\ funOut = None

NextFunctions ==
    /\ \/ ApplyScanFile
       \/ ApplyScanWorkspace
       \/ ApplyParseResults
       \/ ApplyConvert
       \/ ApplyFindingsToDiagnostics
    /\ UNCHANGED <<extVars, supVars, globalVars, saveVars>>

SpecFunctions == InitFunctions /\ [][NextFunctions]_vars

(***************************************************************************)
(* The claims.                                                             *)
(***************************************************************************)
MapsAgree(m, n) ==
    /\ MapKeys(m) = MapKeys(n)
    /\ \A k \in MapKeys(m) : MapGet(m, k) = MapGet(n, k)

Count(seq, x) == Cardinality({i \in 1..Len(seq) : seq[i] = x})

SameBag(s, t) ==
    /\ Len(s) = Len(t)
    /\ \A i \in 1..Len(s) : Count(s, s[i]) = Count(t, s[i])

\* The languages of the comment-token table.
TableLanguages ==
    {"python", "javascript", "typescript", "java", "go", "c", "cpp", "csharp",
     "ruby", "php", "rust", "kotlin", "scala", "swift"}

LineInRange(call) == call.line >= 0 /\ call.line < Len(call.before)

\* C1: a single-file scan of f returns only findings whose normalized path
\* is f's project-relative path, for every outcome of the scanner.
C1_ScanFileReturnsOnlyTarget ==
    lastCall.by = "scanDocument" =>
        \A i \in 1..Len(lastCall.arg) :
            normalize(lastCall.arg[i].path)
                = normalize(relative(workspaceFolder, lastCall.filePath))

\* C2: when a workspace scan has completed, the findings store holds
\* exactly the scan's findings grouped by resolved absolute path.
C2_WorkspaceScanReplacesStore ==
    wsLog.state = "done" => MapsAgree(findings, wsLog.map)

\* C3: no path of the findings store is mapped to an empty list, and after
\* updateFindings(path, []) the path is in no listing.
C3_NoEmptyEntries ==
    /\ \A i \in 1..Len(findings) : Len(findings[i].val) > 0
    /\ (lastCall.op = "updateFindings" /\ lastCall.arg = <<>>) =>
           /\ ~MapHas(findings, lastCall.filePath)
           /\ \A i \in 1..Len(getChildren(findings)) :
                  getChildren(findings)[i].filePath # lastCall.filePath

\* C3's case: updateFindings(path, []) on a path the store held, with
\* another entry staying.
C3_Witness ==
    /\ lastCall.op = "updateFindings"
    /\ lastCall.arg = <<>>
    /\ lastCall.had
    /\ findings # EmptyMap

\* C4: with the minimum severity ERROR, the root listing of the findings
\* store holds only ERROR findings.
C4_ListAtErrorOnlyErrors ==
    minSeverity = "ERROR" =>
        \A i \in 1..Len(getChildren(findings)) :
            getChildren(findings)[i].finding.severity = "ERROR"

\* C5: the root listing is ordered by severity descending (ERROR, then
\* WARNING, then INFO), then by file path ascending, and findings of one
\* severity and file keep their order in the store.
C5_ListingOrder ==
    LET items == getChildren(findings)
        stored == TreeItems(findings)
        Level(item) == severityLevels(item.finding.severity)
    IN /\ \A i, j \in 1..Len(items) :
              i < j =>
                  \/ Level(items[i]) > Level(items[j])
                  \/ /\ Level(items[i]) = Level(items[j])
                     /\ localeCompare(items[i].filePath, items[j].filePath) <= 0
       /\ \A sev \in Severities, filePath \in Files :
              LET Same(item) == item.finding.severity = sev /\ item.filePath = filePath
              IN SelectSeq(items, Same) = SelectSeq(stored, Same)

\* C6: after updateFindings(path, findings) the listing holds exactly those
\* findings for path, none dropped and none twice, and with the minimum
\* severity INFO every one of them has its diagnostic.
C6_ReplaceThenListAtInfo ==
    lastCall.op = "updateFindings" =>
        LET OfPath(item) == item.filePath = lastCall.filePath
            listed == SelectSeq(getChildren(findings), OfPath)
        IN /\ SameBag([i \in 1..Len(listed) |-> listed[i].finding], lastCall.arg)
           /\ minSeverity = "INFO" =>
                  documentDiagnostics[lastCall.filePath]
                      = [i \in 1..Len(lastCall.arg) |-> findingToDiagnostic(lastCall.arg[i])]

\* C6's case: two findings, one of them INFO, stored at the minimum severity INFO.
C6_Witness ==
    /\ lastCall.op = "updateFindings"
    /\ minSeverity = "INFO"
    /\ Len(lastCall.arg) = 2
    /\ \E i \in 1..2 : lastCall.arg[i].severity = "INFO"
    /\ \E i \in 1..2 : lastCall.arg[i].severity # "INFO"

\* C7 as stated: whenever the target line holds a suppression marker,
\* suppressFinding reports that the line is suppressed already and changes
\* nothing.
C7_AlreadySuppressedWheneverMarked ==
    (/\ lastSuppress # None
     /\ lastSuppress.op = "suppressFinding"
     /\ LineInRange(lastSuppress)
     /\ AlreadySuppressed(lastSuppress.before[lastSuppress.line + 1])) =>
        /\ lastSuppress.outcome = "already"
        /\ doc = lastSuppress.before

\* C7 as amended: on a line that holds a suppression marker suppressFinding
\* changes nothing, and in a document whose language has a comment token it
\* reports that the line is suppressed already; so the call that repeats an
\* applied suppressFinding of the same line and rule reports that and leaves
\* the document as the first call left it.
C7_SuppressFindingIdempotent ==
    (lastSuppress # None /\ lastSuppress.op = "suppressFinding") =>
        /\ (/\ LineInRange(lastSuppress)
            /\ AlreadySuppressed(lastSuppress.before[lastSuppress.line + 1])) =>
               /\ doc = lastSuppress.before
               /\ disk = lastSuppress.diskBefore
               /\ pcS = "idle"
               /\ lastSuppress.language \in TableLanguages =>
                      lastSuppress.outcome = "already"
        /\ lastSuppress.repeat =>
               /\ lastSuppress.outcome = "already"
               /\ doc = lastSuppress.before

\* C7's case: the second of two suppressFinding calls on one line and rule.
C7_Witness ==
    /\ lastSuppress # None
    /\ lastSuppress.repeat
    /\ lastSuppress.outcome = "already"
    /\ doc = lastSuppress.before

\* C8: when suppressFinding's edit is applied, the document is the previous
\* one with ' <comment-token> nosemgrep: <ruleId>' put at the end of the
\* target line, and nothing else changed.
C8_PureInsertionAtLineEnd ==
    (/\ lastSuppress # None
     /\ lastSuppress.op = "suppressFinding"
     /\ lastSuppress.applied) =>
        LET before == lastSuppress.before
            at == lastSuppress.line + 1
            marker == <<" ", getCommentStyle(lastSuppress.language), " ",
                        "nosemgrep", ":", " ", lastSuppress.check_id>>
        IN /\ Len(doc) = Len(before)
           /\ doc[at] = before[at] \o marker
           /\ \A l \in 1..Len(before) : l # at => doc[l] = before[l]

\* C8's case: the edit applied to the second line, which holds text.
C8_Witness ==
    /\ lastSuppress # None
    /\ lastSuppress.op = "suppressFinding"
    /\ lastSuppress.applied
    /\ lastSuppress.line = 1
    /\ lastSuppress.before[2] # <<>>
    /\ doc # lastSuppress.before

\* C9: in a document whose language is not in the comment-token table,
\* suppressFinding and suppressRuleInFile end in an error, and neither edit
\* nor save the document.
C9_UnsupportedLanguageNoMutation ==
    (lastSuppress # None /\ lastSuppress.language \notin TableLanguages) =>
        /\ lastSuppress.outcome =
               IF lastSuppress.op = "suppressFinding" /\ ~LineInRange(lastSuppress)
               THEN "threw" ELSE "unsupported"
        /\ pcS = "idle"
        /\ pendingEdit = None
        /\ doc = lastSuppress.before
        /\ disk = lastSuppress.diskBefore

\* C9's case: suppressFinding on an unsuppressed line of a plaintext
\* document.
C9_Witness ==
    /\ lastSuppress # None
    /\ lastSuppress.language = "plaintext"
    /\ lastSuppress.op = "suppressFinding"
    /\ lastSuppress.outcome = "unsupported"
    /\ ~AlreadySuppressed(lastSuppress.before[lastSuppress.line + 1])

\* C10: k suppressRuleInFile calls of one rule in a row, each applied, leave
\* k marker lines at the top of the document, followed by the content the
\* document had before them.
C10_FileWideAddsALineEachCall ==
    fileWideRun.calls > 0 =>
        LET k == IF pcS = "applyEdit" THEN fileWideRun.calls - 1 ELSE fileWideRun.calls
            markerLine == <<getCommentStyle(languageId), " ", "nosemgrep", ":", " ",
                            fileWideRun.ruleId>>
        IN doc = [i \in 1..k |-> markerLine] \o fileWideRun.base

\* C10's case: two calls of one rule, both applied and saved: two equal
\* marker lines.
C10_Witness ==
    /\ fileWideRun.calls = 2
    /\ pcS = "idle"
    /\ doc[1] = doc[2]
    /\ SubSeq(doc, 3, Len(doc)) = fileWideRun.base

\* C13: a suppression that reports success has had its edit applied and the
\* file saved, and no suppression leaves the document edited but unsaved.
C13_SuccessMeansAppliedAndSaved ==
    lastSuppress # None =>
        /\ lastSuppress.outcome = "success" =>
               /\ lastSuppress.applied
               /\ disk = doc
        /\ pcS = "idle" => disk = doc

\* C18: no two scans of one file path are in flight at once.
C18_OneScanPerPathInFlight ==
    \A i, j \in 1..Len(scanTasks) : scanTasks[i] = scanTasks[j] => i = j

\* C19: every suppression command that has returned is followed by a rescan,
\* and the rescan of an applied edit reads a file that holds the edit.
C19_RescanSeesSavedEdit ==
    (lastSuppress # None /\ pcS = "idle") =>
        /\ rescan # None
        /\ lastSuppress.applied => rescan.sees = doc

\* C14: when the scanner process exits non-zero and its stdout holds
\* parseable JSON, scanFile returns the findings parsed from it and
\* scanWorkspace returns them grouped by file.
C14_NonZeroExitStillYieldsFindings ==
    (/\ funOut # None
     /\ funIn.op \in {"scanFile", "scanWorkspace"}
     /\ funOut.launched
     /\ funIn.env.exit # 0) =>
        LET parsed == parseResults(funIn.env.stdout) IN
        IF funIn.op = "scanFile"
        THEN funOut.findings = parsed
        ELSE funOut.map = GroupByFile(EmptyMap, parsed)

\* C15: neither scanFile nor scanWorkspace raises to its caller, and a scan
\* that fails returns an empty result.
C15_ScansNeverRaise ==
    (funOut # None /\ funIn.op \in {"scanFile", "scanWorkspace"}) =>
        /\ ~funOut.threw
        /\ (~funIn.env.binary \/ ~funIn.env.folder
              \/ parseResults(funIn.env.stdout) = <<>>) =>
               IF funIn.op = "scanFile" THEN funOut.findings = <<>>
               ELSE funOut.map = EmptyMap

\* The findings of the JSON document that starts at the first line that
\* begins with a brace, and none when no JSON can be parsed from there.
JsonFromFirstBrace(stdout) ==
    LET at == {i \in 1..Len(stdout) : StartsWithBrace(stdout[i])} IN
    IF at = {} THEN <<>>
    ELSE LET first == CHOOSE i \in at : \A j \in at : i <= j IN
         IF stdout[first].k = "json" THEN stdout[first].results
         ELSE IF /\ stdout[first].k = "open"
                 /\ first < Len(stdout)
                 /\ stdout[first + 1].k = "rest"
         THEN stdout[first].results
         ELSE <<>>

\* C16: parseResults of banner lines followed by the JSON returns the
\* findings of the JSON that starts at the first line beginning with '{',
\* and the empty result only when no JSON can be parsed there.
C16_ParseRecoversJsonAfterBanner ==
    (funOut # None /\ funIn.op = "parseResults") =>
        funOut.results = JsonFromFirstBrace(funIn.stdout)

\* C17: when the rules directory does not exist, a scan returns an empty
\* result and the scanner process is not launched.
C17_NoRulesNoLaunch ==
    (/\ funOut # None
     /\ funIn.op \in {"scanFile", "scanWorkspace"}
     /\ funIn.env.folder
     /\ ~funIn.env.rules) =>
        /\ ~funOut.launched
        /\ ~funOut.threw
        /\ IF funIn.op = "scanFile" THEN funOut.findings = <<>>
           ELSE funOut.map = EmptyMap

\* C17's case: the binary is there, the folder is open, the rules are
\* missing, and the process would have reported findings.
C17_Witness ==
    /\ funOut # None
    /\ funIn.op = "scanWorkspace"
    /\ funIn.env.binary /\ funIn.env.folder /\ ~funIn.env.rules
    /\ parseResults(funIn.env.stdout) # <<>>
    /\ funOut.map = EmptyMap

\* C20: every conversion of a reported position to editor coordinates gives
\* non-negative lines and columns.
C20_ConvertedPositionsNonNegative ==
    (funOut # None /\ funIn.op = "convert") =>
        /\ \A r \in {funOut.diagnostic, funOut.goTo} :
               /\ r.start.line >= 0 /\ r.start.character >= 0
               /\ r.end.line >= 0 /\ r.end.character >= 0
        /\ funOut.suppressLine >= 0

\* The entries of rules.exclude in a .semgrep.yml, and the keys beside it.
ExcludeEntries(file) ==
    IF file.kind # "yaml" THEN <<>>
    ELSE LET exclude == GetProp(GetProp(file.value, "rules"), "exclude")
         IN IF exclude.t = "seq" THEN exclude.items ELSE <<>>

OtherEntries(v, k) ==
    IF v.t = "map" THEN SelectSeq(v.entries, LAMBDA e : e.key # k) ELSE <<>>

OtherKeysKept(old, new, k) ==
    \A i \in 1..Len(OtherEntries(old, k)) :
        \E j \in 1..Len(OtherEntries(new, k)) :
            OtherEntries(new, k)[j] = OtherEntries(old, k)[i]

\* C11: after a suppressRuleGlobally that succeeded, rules.exclude holds the
\* rule exactly once, and the other keys of the document and of rules, and
\* the other entries of rules.exclude, are there with their values.
C11_GlobalIdempotentKeyPreserving ==
    (lastGlobal # None /\ lastGlobal.outcome = "success") =>
        LET id == Str(<<lastGlobal.ruleId>>)
            old == lastGlobal.before
            NotId(e) == e # id
        IN /\ Count(ExcludeEntries(configFile), id) = 1
           /\ SelectSeq(ExcludeEntries(configFile), NotId)
                  = SelectSeq(ExcludeEntries(old), NotId)
           /\ old.kind = "yaml" =>
                  /\ OtherKeysKept(old.value, configFile.value, "rules")
                  /\ OtherKeysKept(GetProp(old.value, "rules"),
                                   GetProp(configFile.value, "rules"), "exclude")

\* C12: when .semgrep.yml is not YAML, suppressRuleGlobally reports the parse
\* error and the file stays as it was.
C12_InvalidYamlNotOverwritten ==
    (lastGlobal # None /\ lastGlobal.before = InvalidFile) =>
        /\ configFile = InvalidFile
        /\ pcG # "write"
        /\ pcG = "idle" => lastGlobal.outcome \in {"parseError", "noFolder"}

\* C12's case: a call in an open folder whose .semgrep.yml is not YAML has
\* ended.
C12_Witness ==
    /\ lastGlobal # None
    /\ lastGlobal.before = InvalidFile
    /\ lastGlobal.outcome = "parseError"
    /\ pcG = "idle"
    /\ configFile = InvalidFile

\* C27: whenever suppressRuleGlobally reports success for a rule, the file
\* it wrote holds the rule as a member of rules.exclude.
C27_SuccessMeansExcluded ==
    (lastGlobal # None /\ lastGlobal.outcome = "success") =>
        \E i \in 1..Len(ExcludeEntries(configFile)) :
            ExcludeEntries(configFile)[i] = Str(<<lastGlobal.ruleId>>)

\* INFO < WARNING < ERROR, and any other spelling counts as INFO.
Rank(severity) ==
    IF severity = "ERROR" THEN 2 ELSE IF severity = "WARNING" THEN 1 ELSE 0

\* The diagnostics of the findings at or above a minimum severity, in order.
ExpectedDiagnostics(fs, minSev) ==
    LET kept == SelectSeq(fs, LAMBDA f : Rank(f.severity) >= Rank(minSev))
    IN [i \in 1..Len(kept) |->
           [code |-> kept[i].check_id,
            severity |-> CASE Rank(kept[i].severity) = 2 -> "Error"
                           [] Rank(kept[i].severity) = 1 -> "Warning"
                           [] OTHER -> "Information",
            source |-> "OpenGrep"]]

\* C24: the diagnostics of a scan are exactly its findings whose level is at
\* least the configured minimum under INFO < WARNING < ERROR, in scan order,
\* a severity outside the three counting as INFO.
C24_DiagnosticsAreFilteredFindings ==
    (funOut # None /\ funIn.op = "findingsToDiagnostics") =>
        funOut.diagnostics = ExpectedDiagnostics(funIn.fs, funIn.minSeverity)

\* C24's case: a WARNING finding and one of an unknown severity, filtered at
\* WARNING: the first alone has a diagnostic.
C24_Witness ==
    /\ funOut # None
    /\ funIn.op = "findingsToDiagnostics"
    /\ funIn.minSeverity = "WARNING"
    /\ Len(funIn.fs) = 2
    /\ funIn.fs[1].severity = "CRITICAL"
    /\ funIn.fs[2].severity = "WARNING"
    /\ Len(funOut.diagnostics) = 1

RECURSIVE SumOfSizes(_)
SumOfSizes(m) == IF m = <<>> THEN 0 ELSE Len(Head(m).val) + SumOfSizes(Tail(m))

\* C28: the groups of a project scan partition the parsed result: each group
\* holds, in scan order, exactly the findings whose path resolves to its
\* key, no group is empty, no key has two groups, and the sizes add up.
C28_GroupingIsPartition ==
    (/\ funOut # None
     /\ funIn.op = "scanWorkspace"
     /\ funOut.launched
     /\ funIn.env.exit = 0) =>
        LET parsed == parseResults(funIn.env.stdout)
            groups == funOut.map
            KeyOf(f) == resolve(workspaceFolder, f.path)
        IN /\ \A i, j \in 1..Len(groups) : groups[i].key = groups[j].key => i = j
           /\ \A i \in 1..Len(groups) :
                  /\ Len(groups[i].val) > 0
                  /\ groups[i].val = SelectSeq(parsed, LAMBDA f : KeyOf(f) = groups[i].key)
           /\ \A k \in 1..Len(parsed) :
                  \E i \in 1..Len(groups) : groups[i].key = KeyOf(parsed[k])
           /\ SumOfSizes(groups) = Len(parsed)

\* C28's case: two findings whose reported paths differ and resolve to one
\* file make one group of two.
C28_Witness ==
    /\ funOut # None
    /\ funIn.op = "scanWorkspace"
    /\ funOut.launched
    /\ funIn.env.exit = 0
    /\ Len(funOut.map) = 1
    /\ Len(funOut.map[1].val) = 2
    /\ funOut.map[1].val[1].path # funOut.map[1].val[2].path

\* C30: when the repopulation of a project scan has ended, a file that did
\* not open has no store entry and no diagnostics, and every other file of
\* the scan result is stored with its findings and has diagnostics set.
C30_UnopenableFileSkippedOthersStored ==
    wsLog.state = "done" =>
        \A i \in 1..Len(wsLog.map) :
            LET filePath == wsLog.map[i].key IN
            IF filePath \in wsLog.skipped
            THEN /\ ~MapHas(findings, filePath)
                 /\ filePath \notin DOMAIN documentDiagnostics
            ELSE /\ MapHas(findings, filePath)
                 /\ MapGet(findings, filePath) = wsLog.map[i].val
                 /\ filePath \in DOMAIN documentDiagnostics

\* C30's case: a scan of two files ended, the first did not open and the
\* second did.
C30_Witness ==
    /\ wsLog.state = "done"
    /\ Len(wsLog.map) = 2
    /\ wsLog.skipped = {wsLog.map[1].key}
    /\ MapHas(findings, wsLog.map[2].key)

\* C22: once no scan of a file is in flight, the result its store entry and
\* diagnostics were last given by a per-file scan is not one of a scan that
\* a later-issued scan of the file had finished before.
C22_ResultsAppliedInIssueOrder ==
    (/\ lastCall.by = "scanDocument"
     /\ \A i \in 1..Len(scanTasks) : scanTasks[i] # lastCall.filePath) =>
        ~lastCall.overtaken

\* C23: while the repopulation loop of a project scan awaits, the store
\* holds what it held before the scan's clear or the scan's whole result,
\* and no per-file scan has written to it since the clear.
C23_WorkspaceScanNotObservedHalfApplied ==
    wsPhase = "opening" =>
        /\ MapsAgree(findings, wsLog.before) \/ MapsAgree(findings, wsLog.map)
        /\ lastCall.by # "scanDocument"

\* The findings the store holds for a path: none when it has no entry.
StoredFindings(filePath) ==
    IF MapHas(findings, filePath) THEN MapGet(findings, filePath) ELSE <<>>

\* C29: at every await, per file: the file has diagnostics set only by a
\* computation on what the store holds for it, they are the store's findings
\* of the file at or above the minimum severity in force at that
\* computation, a file with diagnostics to show has a store entry, and after
\* a clear the store and the diagnostics are both empty.
C29_DiagnosticsAgreeWithStore ==
    /\ \A i \in 1..Len(findings) : findings[i].key \in DOMAIN documentDiagnostics
    /\ \A filePath \in DOMAIN documentDiagnostics :
           /\ documentDiagnostics[filePath] =
                  ExpectedDiagnostics(StoredFindings(filePath), computedAt[filePath])
           /\ documentDiagnostics[filePath] # <<>> => MapHas(findings, filePath)
    /\ lastCall.op = "clearFindings" =>
           findings = EmptyMap /\ documentDiagnostics = NoDiagnostics

\* C29's case: a file's diagnostics were computed under a setting that has
\* changed since, and they leave out a finding the store holds for the file.
C29_Witness ==
    \E filePath \in DOMAIN documentDiagnostics :
        /\ computedAt[filePath] # minSeverity
        /\ MapHas(findings, filePath)
        /\ Len(documentDiagnostics[filePath]) < Len(MapGet(findings, filePath))

\* C21: a save of a file-scheme document made while opengrep.scanOnSave is
\* on starts a scan of it, and a save made while the setting is off starts
\* none.
C21_SaveScansIffSettingEnabled ==
    lastSave # None =>
        /\ (lastSave.setting /\ lastSave.scheme = "file") => lastSave.scanned
        /\ ~lastSave.setting => ~lastSave.scanned

\* C25: no line of the document holds more than one suppression marker,
\* whatever suppress commands and quick fixes were run on it.
C25_AtMostOneMarkerPerLine ==
    \A l \in 1..Len(doc) : Markers(doc[l]) <= 1

\* C26: every marker put into the document starts with the comment token of
\* the table for the document's language ('#' for python and ruby, '//' for
\* the others), and none is put into a document whose language the table
\* does not hold.  The marker's first token is looked up in the document:
\* after the separating space at the end of the line the edit was made on,
\* or at the start of the first line for a file-wide suppression.
C26_MarkerUsesLanguageToken ==
    (lastSuppress # None /\ lastSuppress.applied) =>
        LET at == lastSuppress.line + 1
            inserted == IF lastSuppress.op = "suppressRuleInFile"
                        THEN doc[1][1]
                        ELSE doc[at][Len(lastSuppress.before[at]) + 2]
            token == IF lastSuppress.language \in {"python", "ruby"} THEN "#" ELSE "//"
        IN /\ lastSuppress.language \in TableLanguages
           /\ inserted = token
=============================================================================
